---- MODULE Spec2Model ----
(***************************************************************************)
(* Model of dso/task/control/control.py: make_control_task and the        *)
(* closures it builds (get_action, run_episodes, reward, evaluate).       *)
(*                                                                         *)
(* Floating-point values are the tagged pairs <<"fin", n>>, <<"inf", 1>>,  *)
(* <<"inf", -1>> and <<"nan", 0>>; the finite ones stand for numbers that  *)
(* the float32 action array stores exactly.  Means and scaled rewards are  *)
(* exact fractions <<numerator, denominator>>.                             *)
(***************************************************************************)
EXTENDS Integers, Sequences, FiniteSets

\* ------------------------------------------------------------- bounds
NObs == 2               \* observations are x1 \in 0 .. NObs-1
RngMod == 3             \* states of the environment's random generator
MaxEpisodeSteps == 2    \* time limit of a terminating environment
StepCap == 3            \* steps modelled in an episode that never ends
MaxShift == 1           \* episode_seed_shift \in 0 .. MaxShift
MaxSpecLen == 2         \* longest action_spec given to make_control_task
MaxEpisodes == 2        \* n_episodes_train, n_episodes_test \in 1 .. MaxEpisodes

\* ------------------------------------------------- program constants
REWARD_SEED_SHIFT == 1000000
SEED_SHIFT_STRIDE == 100

\* ------------------------------------------------------ float values
NaN == <<"nan", 0>>
PosInf == <<"inf", 1>>
NegInf == <<"inf", -1>>
Fin(n) == <<"fin", n>>
IsNaN(v) == v[1] = "nan"
IsFin(v) == v[1] = "fin"

\* a < b on floats: FALSE as soon as one side is NaN
Less(a, b) ==
    /\ ~IsNaN(a)
    /\ ~IsNaN(b)
    /\ IF a = NegInf THEN b # NegInf
       ELSE IF a = PosInf THEN FALSE
       ELSE IF b = PosInf THEN TRUE
       ELSE IF b = NegInf THEN FALSE
       ELSE a[2] < b[2]
LessEq(a, b) == ~IsNaN(a) /\ ~IsNaN(b) /\ ~Less(b, a)

\* np.maximum / np.minimum: NaN propagates
NpMaximum(a, b) == IF IsNaN(a) THEN a ELSE IF IsNaN(b) THEN b ELSE IF Less(a, b) THEN b ELSE a
NpMinimum(a, b) == IF IsNaN(a) THEN a ELSE IF IsNaN(b) THEN b ELSE IF Less(b, a) THEN b ELSE a

\* Optional values: Python None is the empty tuple
None == <<>>
Some(x) == <<x>>

\* ------------------------------------------- collaborators (black boxes)
\* Program.execute on one observation row; a program is named by its tokens
P_ZERO == "sub,x1,x1"
P_NAN1 == "div,x1,x1"
P_NANPOSINF == "div,x1,sub,x1,x1"
P_NANNEGINF == "div,neg,x1,sub,x1,x1"
P_LIN == "sub,mul,4.0,x1,2.0"
Execute(p, x) ==
    CASE p = P_ZERO -> Fin(0)
      [] p = P_NAN1 -> IF x = 0 THEN NaN ELSE Fin(1)
      [] p = P_NANPOSINF -> IF x = 0 THEN NaN ELSE PosInf
      [] p = P_NANNEGINF -> IF x = 0 THEN NaN ELSE NegInf
      [] p = P_LIN -> Fin(4 * x - 2)

\* candidate programs handed to reward() and evaluate()
Programs == {P_ZERO, P_NAN1, P_NANPOSINF, P_LIN}

\* from_str_tokens: the frozen program compiled from a token string or list
from_str_tokens(str_tokens) == str_tokens

\* model.predict(obs)[0]: the anchor's full action vector
AnchorPredict(x, n_actions) ==
    [j \in 1..n_actions |->
        IF j = x + 1 THEN NaN ELSE IF j % 2 = 1 THEN Fin(3) ELSE Fin(-3)]

\* the environment: its generator state, observation, step count, kind
EnvSeed(e, s) == [e EXCEPT !.rng = s % RngMod]
EnvReset(e) == [e EXCEPT !.obs = e.rng % NObs, !.rng = (e.rng + 1) % RngMod, !.t = 0]
Score(v) ==
    IF v = PosInf THEN 2
    ELSE IF v = NegInf THEN -2
    ELSE IF v[2] > 2 THEN 2 ELSE IF v[2] < -2 THEN -2 ELSE v[2]
StepReward(e, action) == e.obs + Score(action[1])
StepObs(e, action) ==
    (e.obs + e.rng + (IF Less(Fin(0), action[1]) THEN 1 ELSE 0)) % NObs
StepDone(e, action) ==
    e.terminates /\ (e.t + 1 >= MaxEpisodeSteps \/ StepObs(e, action) = 0)
EnvStep(e, action) ==
    [e EXCEPT !.obs = StepObs(e, action), !.rng = (e.rng + 1) % RngMod, !.t = e.t + 1]

\* env.action_space.low / high, per dimension
BoxProfiles == {"unit_pos", "free_neg"}
BoxLow(profile, j) ==
    IF profile = "unit_pos" THEN (IF j % 2 = 1 THEN Fin(-1) ELSE Fin(1))
    ELSE (IF j % 2 = 1 THEN NegInf ELSE Fin(-2))
BoxHigh(profile, j) ==
    IF profile = "unit_pos" THEN (IF j % 2 = 1 THEN Fin(1) ELSE Fin(2))
    ELSE (IF j % 2 = 1 THEN PosInf ELSE Fin(-1))

\* ------------------------------------------------ action_spec entries
\* an entry is Python None, a str, a list of tokens, or something else
SpecNone == [tag |-> "none", val |-> ""]
SpecAnchor == [tag |-> "str", val |-> "anchor"]
SpecTokens == [tag |-> "str", val |-> P_NANNEGINF]
SpecTokenList == [tag |-> "list", val |-> P_NAN1]
SpecOther == [tag |-> "other", val |-> "3.14"]
IsAnchor(spec) == spec.tag = "str" /\ spec.val = "anchor"
IsNone(spec) == spec.tag = "none"
IsTokens(spec) == (spec.tag = "list" \/ spec.tag = "str") /\ ~IsAnchor(spec)

\* ------------------------------------------------- exact fractions
RECURSIVE GCD(_, _)
GCD(a, b) == IF b = 0 THEN a ELSE GCD(b, a % b)
Abs(n) == IF n < 0 THEN -n ELSE n
\* a zero denominator is the float result of x / 0.0: <<1,0>> inf, <<-1,0>> -inf, <<0,0>> nan
Rat(num, den) ==
    IF den = 0 THEN <<(IF num > 0 THEN 1 ELSE IF num < 0 THEN -1 ELSE 0), 0>>
    ELSE LET g == GCD(Abs(num), Abs(den))
             sgn == IF den < 0 THEN -1 ELSE 1
         IN  <<sgn * (num \div g), sgn * (den \div g)>>
RatSub(a, b) == Rat(a[1] * b[2] - b[1] * a[2], a[2] * b[2])
RatDiv(a, b) == Rat(a[1] * b[2], a[2] * b[1])
RatLess(a, b) == a[1] * b[2] < b[1] * a[2]

RECURSIVE SumSeq(_)
SumSeq(s) == IF s = <<>> THEN 0 ELSE Head(s) + SumSeq(Tail(s))
\* np.mean of a non-empty vector of integers
NpMean(s) == Rat(SumSeq(s), Len(s))

\* REWARD_SCALE[env_name] as [r_min, r_max]; None when env_name is not a key
REWARD_SCALE(env_name) ==
    CASE env_name = "CustomCartPoleContinuous-v0" -> Some(<<Rat(0, 1), Rat(1000, 1)>>)
      [] env_name = "MountainCarContinuous-v0" -> Some(<<Rat(0, 1), Rat(9395, 100)>>)
      [] env_name = "Pendulum-v0" -> Some(<<Rat(-1300, 1), Rat(-14756, 100)>>)
      [] env_name = "InvertedDoublePendulumBulletEnv-v0" -> Some(<<Rat(0, 1), Rat(935777, 100)>>)
      [] env_name = "InvertedPendulumSwingupBulletEnv-v0" -> Some(<<Rat(0, 1), Rat(89134, 100)>>)
      [] env_name = "LunarLanderContinuous-v2" -> Some(<<Rat(0, 1), Rat(27265, 100)>>)
      [] env_name = "HopperBulletEnv-v0" -> Some(<<Rat(0, 1), Rat(274186, 100)>>)
      [] env_name = "ReacherBulletEnv-v0" -> Some(<<Rat(-5, 1), Rat(1905, 100)>>)
      [] env_name = "BipedalWalker-v2" -> Some(<<Rat(-60, 1), Rat(312, 1)>>)
      [] OTHER -> None

\* reward_scale argument: a list of numbers, or a bool
ScaleList(items) == [tag |-> "list", items |-> items, val |-> FALSE]
ScaleBool(b) == [tag |-> "bool", items |-> <<>>, val |-> b]

\* lines 95-105: [err, r_min, r_max]
ResolveRewardScale(reward_scale, env_name) ==
    IF reward_scale.tag = "list"
    THEN IF Len(reward_scale.items) # 2
         THEN [err |-> "AssertionError", r_min |-> None, r_max |-> None]
         ELSE [err |-> "", r_min |-> Some(reward_scale.items[1]),
               r_max |-> Some(reward_scale.items[2])]
    ELSE IF reward_scale.val
    THEN IF REWARD_SCALE(env_name) # None
         THEN [err |-> "", r_min |-> Some(REWARD_SCALE(env_name)[1][1]),
               r_max |-> Some(REWARD_SCALE(env_name)[1][2])]
         ELSE [err |-> "RuntimeError", r_min |-> None, r_max |-> None]
    ELSE [err |-> "", r_min |-> None, r_max |-> None]

\* lines 115, 120-126: the first failing check, "" when all pass
NoneCount(action_spec) == Cardinality({j \in 1..Len(action_spec) : IsNone(action_spec[j])})
\* mutant: "< 1" in place of "<= 1"
NoneCountOk_Strict(action_spec) == NoneCount(action_spec) < 1
NoneCountOk(action_spec) == NoneCount(action_spec) <= 1
ConfigAssertions(a) ==
    IF Len(a.obs_shape) = 0 THEN "IndexError"
    ELSE IF Len(a.obs_shape) # 1 THEN "AssertionError"
    ELSE IF ~a.is_box THEN "AssertionError"
    ELSE IF a.n_actions # Len(a.action_spec) THEN "AssertionError"
    ELSE IF ~NoneCountOk(a.action_spec) THEN "AssertionError"
    ELSE IF (a.algorithm = None) # (a.anchor = None) THEN "AssertionError"
    ELSE ""

\* lines 128-137: is an anchor model loaded
LoadModel(action_spec) == \E j \in 1..Len(action_spec) : IsAnchor(action_spec[j])

\* lines 139-159: symbolic_actions, action_dim, and the failing entry if any
\* (action dimensions count from 1 here, from 0 in the code)
SymbolicActions(action_spec) ==
    [j \in {k \in 1..Len(action_spec) : IsTokens(action_spec[k])} |->
        from_str_tokens(action_spec[j].val)]
ActionDim(action_spec) ==
    LET nones == {j \in 1..Len(action_spec) : IsNone(action_spec[j])}
    IN  IF nones = {} THEN None
        ELSE Some(CHOOSE j \in nones : \A k \in nones : k <= j)
SpecLoopError(action_spec) ==
    IF \E j \in 1..Len(action_spec) :
          ~IsAnchor(action_spec[j]) /\ ~IsNone(action_spec[j]) /\ ~IsTokens(action_spec[j])
    THEN "AssertionError" ELSE ""

NoTask == [made |-> FALSE]
\* make_control_task: [err, task]; task holds what the closures capture
make_control_task(a) ==
    LET rs == ResolveRewardScale(a.reward_scale, a.env_name)
        err == IF rs.err # "" THEN rs.err
               ELSE IF ConfigAssertions(a) # "" THEN ConfigAssertions(a)
               ELSE SpecLoopError(a.action_spec)
    IN  IF err # "" THEN [err |-> err, task |-> NoTask]
        ELSE [err |-> "",
              task |-> [made |-> TRUE,
                        action_spec |-> a.action_spec,
                        n_actions |-> a.n_actions,
                        low |-> [j \in 1..a.n_actions |-> BoxLow(a.box, j)],
                        high |-> [j \in 1..a.n_actions |-> BoxHigh(a.box, j)],
                        model |-> LoadModel(a.action_spec),
                        symbolic_actions |-> SymbolicActions(a.action_spec),
                        action_dim |-> ActionDim(a.action_spec),
                        r_min |-> rs.r_min,
                        r_max |-> rs.r_max,
                        fix_seeds |-> a.fix_seeds,
                        episode_seed_shift |-> a.episode_seed_shift,
                        n_episodes_train |-> a.n_episodes_train,
                        n_episodes_test |-> a.n_episodes_test,
                        success_score |-> a.success_score]]

\* ---------------------------------------------------- the closures
\* lines 178-182: the seed of episode i, None when env.seed is not called
\* mutant: no seeds are reserved for evaluation
TrainSeed_NoReserve(i, episode_seed_shift) ==
    i + (episode_seed_shift * SEED_SHIFT_STRIDE)
TrainSeed(i, episode_seed_shift) ==
    i + (episode_seed_shift * SEED_SHIFT_STRIDE) + REWARD_SEED_SHIFT
EvalSeed(i) == i
\* mutant: the shift is left out of the training seed
EpisodeSeed_NoShift(evaluate, fix_seeds, i, episode_seed_shift) ==
    IF evaluate THEN Some(EvalSeed(i))
    ELSE IF fix_seeds THEN Some(TrainSeed(i, 0))
    ELSE None
\* mutant: evaluation, too, seeds only when fix_seeds is set
EpisodeSeed_EvalIfFixed(evaluate, fix_seeds, i, episode_seed_shift) ==
    IF ~fix_seeds THEN None
    ELSE IF evaluate THEN Some(EvalSeed(i))
    ELSE Some(TrainSeed(i, episode_seed_shift))
EpisodeSeed(evaluate, fix_seeds, i, episode_seed_shift) ==
    IF evaluate THEN Some(EvalSeed(i))
    ELSE IF fix_seeds THEN Some(TrainSeed(i, episode_seed_shift))
    ELSE None

\* lines 162-168
get_action(p, obs) == Execute(p, obs)

\* mutant: the anchor prediction is written after the symbolic actions
ComposeAction_AnchorLast(t, p, obs) ==
    LET zeros == [j \in 1..t.n_actions |-> Fin(0)]
        fixed == [j \in 1..t.n_actions |->
                    IF j \in DOMAIN t.symbolic_actions
                    THEN get_action(t.symbolic_actions[j], obs) ELSE zeros[j]]
        learned == [j \in 1..t.n_actions |->
                      IF t.action_dim # None /\ j = t.action_dim[1]
                      THEN get_action(p, obs) ELSE fixed[j]]
    IN  IF t.model THEN AnchorPredict(obs, t.n_actions) ELSE learned
\* lines 187-199: the action vector before NaN replacement and clipping
ComposeAction(t, p, obs) ==
    LET base == IF t.model THEN AnchorPredict(obs, t.n_actions)
                ELSE [j \in 1..t.n_actions |-> Fin(0)]
        fixed == [j \in 1..t.n_actions |->
                    IF j \in DOMAIN t.symbolic_actions
                    THEN get_action(t.symbolic_actions[j], obs) ELSE base[j]]
    IN  [j \in 1..t.n_actions |->
            IF t.action_dim # None /\ j = t.action_dim[1]
            THEN get_action(p, obs) ELSE fixed[j]]

\* mutant: NaNs are left in place
ReplaceNaNs_Skip(action) == action
\* mutant: only the lower bound is enforced
ClipAction_LowOnly(action, low, high) ==
    [j \in DOMAIN action |-> NpMaximum(action[j], low[j])]
\* line 202
ReplaceNaNs(action) ==
    [j \in DOMAIN action |-> IF IsNaN(action[j]) THEN Fin(0) ELSE action[j]]
\* line 203: np.clip
ClipAction(action, low, high) ==
    [j \in DOMAIN action |-> NpMinimum(NpMaximum(action[j], low[j]), high[j])]

\* mutant: every reward is added to the first episode's entry
Accumulate_First(r_eps, i, r) == [r_eps EXCEPT ![1] = @ + r]
\* line 206: r_episodes[i] += r   (i counts from 0)
Accumulate(r_eps, i, r) == [r_eps EXCEPT ![i + 1] = @ + r]

\* mutant: "if r_min:" in place of "if r_min is not None:"
RewardValue_Truthy(r_eps, r_min, r_max) ==
    LET r_avg == NpMean(r_eps)
    IN  IF r_min # None /\ r_min[1][1] # 0
        THEN RatDiv(RatSub(r_avg, r_min[1]), RatSub(r_max[1], r_min[1]))
        ELSE r_avg
\* lines 216-223
RewardValue(r_eps, r_min, r_max) ==
    LET r_avg == NpMean(r_eps)
    IN  IF r_min # None
        THEN RatDiv(RatSub(r_avg, r_min[1]), RatSub(r_max[1], r_min[1]))
        ELSE r_avg

\* mutant: ">" in place of ">="
MeetsScore_Strict(r, success_score) == r > success_score
\* lines 231-241
MeetsScore(r, success_score) == r >= success_score
EvaluateInfo(r_eps, success_score) ==
    LET hits == [k \in 1..Len(r_eps) |-> IF MeetsScore(r_eps[k], success_score) THEN 1 ELSE 0]
        success_rate == NpMean(hits)
    IN  [r_avg_test |-> NpMean(r_eps),
         success_rate |-> success_rate,
         success |-> (success_rate = Rat(1, 1))]

\* ------------------------------------------------------------ state
VARIABLES
    task,        \* what make_control_task's closures capture
    env,         \* the one environment instance
    pc,          \* "idle", or the position inside run_episodes: "loop", "step"
    call,        \* the running (or last) call: kind, program p, n_episodes
    i,           \* run_episodes: episode index
    r_episodes,  \* run_episodes: episodic returns
    trace,       \* the env.seed / env.reset / env.step calls of this call, in order
    last,        \* the latest env.step: observation, composed and sent action
    result,      \* what the last call returned
    evalSeen,    \* per program, every report evaluate() has returned so far
    probe        \* inputs and outputs of the stand-alone function checks

vars == <<task, env, pc, call, i, r_episodes, trace, last, result, evalSeen, probe>>

NoCall == [kind |-> "none", p |-> "", n |-> 0, evaluate |-> FALSE]
NoStep == [stepped |-> FALSE, obs |-> 0, composed |-> <<>>, sent |-> <<>>]
NoResult == [kind |-> "none", value |-> Rat(0, 1), repeat |-> FALSE,
             info |-> [r_avg_test |-> Rat(0, 1), success_rate |-> Rat(0, 1), success |-> FALSE]]
NoProbe == [kind |-> "none"]

SeedEvent(s) == [op |-> "seed", arg |-> s, done |-> FALSE]
ResetEvent == [op |-> "reset", arg |-> 0, done |-> FALSE]
StepEvent(r, d) == [op |-> "step", arg |-> r, done |-> d]

\* ------------------------------------------- configurations explored
BaseArgs ==
    [env_name |-> "CustomCartPoleContinuous-v0", obs_shape |-> <<NObs>>, is_box |-> TRUE,
     n_actions |-> Len(<<SpecNone, SpecAnchor>>), box |-> "unit_pos",
     action_spec |-> <<SpecNone, SpecAnchor>>, algorithm |-> None, anchor |-> None,
     reward_scale |-> ScaleBool(FALSE), fix_seeds |-> FALSE, episode_seed_shift |-> 0,
     n_episodes_train |-> MaxEpisodes, n_episodes_test |-> MaxEpisodes, success_score |-> 2]

RunSpecEntries == {SpecNone, SpecAnchor, SpecTokens}
RunScales ==
    {ScaleBool(FALSE), ScaleBool(TRUE), ScaleList(<<Rat(0, 1), Rat(1, 1)>>),
     ScaleList(<<Rat(2, 1), Rat(7, 2)>>), ScaleList(<<Rat(1, 1), Rat(1, 1)>>)}

SeqsUpTo(S, n) == UNION {[1..m -> S] : m \in 0..n}
\* every action specification and box, default seeding and scaling
ComposeArgs ==
    {[BaseArgs EXCEPT !.action_spec = sp, !.n_actions = Len(sp), !.box = b] :
        sp \in SeqsUpTo(RunSpecEntries, MaxSpecLen) \ {<<>>}, b \in BoxProfiles}
\* every seeding and scaling setting, one action specification
SeedScaleArgs ==
    {[BaseArgs EXCEPT !.fix_seeds = f, !.episode_seed_shift = sh, !.reward_scale = rs,
                      !.n_episodes_train = nt] :
        f \in BOOLEAN, sh \in 0..MaxShift, rs \in RunScales, nt \in {1, MaxEpisodes}}

RunArgs == {a \in ComposeArgs \cup SeedScaleArgs : make_control_task(a).err = ""}

InitWith(argset) ==
    /\ \E a \in argset : task = make_control_task(a).task
    /\ \E g \in 0..(RngMod - 1), term \in BOOLEAN :
          env = [rng |-> g, obs |-> 0, t |-> 0, terminates |-> term]
    /\ pc = "idle"
    /\ call = NoCall
    /\ i = 0
    /\ r_episodes = <<>>
    /\ trace = <<>>
    /\ last = NoStep
    /\ result = NoResult
    /\ evalSeen = [p \in Programs |-> {}]
    /\ probe = NoProbe
Init == InitWith(RunArgs)

\* ---------------------------------------------------------- actions
\* reward(p) / evaluate(p) entered: run_episodes starts (line 175)
StartCall(kind, p, n) ==
    /\ pc = "idle"
    /\ call' = [kind |-> kind, p |-> p, n |-> n, evaluate |-> (kind = "evaluate")]
    /\ i' = 0
    /\ r_episodes' = [k \in 1..n |-> 0]
    /\ trace' = <<>>
    /\ last' = NoStep
    /\ result' = NoResult
    /\ pc' = "loop"
    /\ UNCHANGED <<task, env, evalSeen, probe>>

Reward(p) == StartCall("reward", p, task.n_episodes_train)
Evaluate(p) == StartCall("evaluate", p, task.n_episodes_test)

\* lines 176-184: next episode: seed (maybe), reset, done = False
BeginEpisode ==
    /\ pc = "loop"
    /\ i < call.n
    /\ LET seed == EpisodeSeed(call.evaluate, task.fix_seeds, i, task.episode_seed_shift)
       IN  IF seed # None
           THEN /\ env' = EnvReset(EnvSeed(env, seed[1]))
                /\ trace' = trace \o <<SeedEvent(seed[1]), ResetEvent>>
           ELSE /\ env' = EnvReset(env)
                /\ trace' = Append(trace, ResetEvent)
    /\ pc' = "step"
    /\ UNCHANGED <<task, call, i, r_episodes, last, result, evalSeen, probe>>

\* lines 185-206: one pass of the while loop
StepEnv ==
    /\ pc = "step"
    /\ env.t < StepCap
    /\ LET composed == ComposeAction(task, call.p, env.obs)
           action == ClipAction(ReplaceNaNs(composed), task.low, task.high)
           r == StepReward(env, action)
           done == StepDone(env, action)
       IN  /\ last' = [stepped |-> TRUE, obs |-> env.obs, composed |-> composed, sent |-> action]
           /\ env' = EnvStep(env, action)
           /\ r_episodes' = Accumulate(r_episodes, i, r)
           /\ trace' = Append(trace, StepEvent(r, done))
           /\ i' = IF done THEN i + 1 ELSE i
           /\ pc' = IF done THEN "loop" ELSE "step"
    /\ UNCHANGED <<task, call, result, evalSeen, probe>>

\* line 208, then lines 216-223 or 231-241
Return ==
    /\ pc = "loop"
    /\ i = call.n
    /\ IF call.evaluate
       THEN LET info == EvaluateInfo(r_episodes, task.success_score)
            IN  /\ result' = [NoResult EXCEPT !.kind = "evaluate", !.info = info,
                                               !.repeat = (evalSeen[call.p] # {})]
                /\ evalSeen' = [evalSeen EXCEPT ![call.p] = @ \cup {info}]
       ELSE /\ result' = [NoResult EXCEPT !.kind = "reward",
                             !.value = RewardValue(r_episodes, task.r_min, task.r_max)]
            /\ evalSeen' = evalSeen
    /\ pc' = "idle"
    /\ UNCHANGED <<task, env, call, i, r_episodes, trace, last, probe>>

Next ==
    \/ \E p \in Programs : Reward(p)
    \/ \E p \in Programs : Evaluate(p)
    \/ BeginEpisode
    \/ StepEnv
    \/ Return

Spec == Init /\ [][Next]_vars

\* ------------------------------------------------ reading the trace
Returned == pc = "idle" /\ call.kind # "none"
Dims == 1..task.n_actions
ResetCount(k) == Cardinality({m \in 1..k : trace[m].op = "reset"})
\* the seeds given to env.seed, in call order
SeedArgs == SelectSeq(trace, LAMBDA ev : ev.op = "seed")
\* raw return of episode j (counted from 1): the rewards env.step handed back in it
RECURSIVE RawReturnUpTo(_, _)
RawReturnUpTo(j, k) ==
    IF k = 0 THEN 0
    ELSE RawReturnUpTo(j, k - 1)
         + (IF trace[k].op = "step" /\ ResetCount(k) = j THEN trace[k].arg ELSE 0)
RawReturn(j) == RawReturnUpTo(j, Len(trace))
RECURSIVE RawTotalUpTo(_)
RawTotalUpTo(j) == IF j = 0 THEN 0 ELSE RawTotalUpTo(j - 1) + RawReturn(j)

\* ------------------------------------------------------------ claims
\* C1: every action vector handed to env.step is free of NaN and lies within
\* [low[k], high[k]] in every dimension k; a composed value below low[k] is
\* sent as low[k], one above high[k] as high[k], one inside is sent unchanged.
C1_ActionWithinBounds ==
    last.stepped =>
        \A k \in Dims :
            /\ ~IsNaN(last.sent[k])
            /\ LessEq(task.low[k], last.sent[k])
            /\ LessEq(last.sent[k], task.high[k])
            /\ Less(last.composed[k], task.low[k]) => last.sent[k] = task.low[k]
            /\ Less(task.high[k], last.composed[k]) => last.sent[k] = task.high[k]
            /\ (LessEq(task.low[k], last.composed[k]) /\ LessEq(last.composed[k], task.high[k]))
                  => last.sent[k] = last.composed[k]
\* a step whose composed action is below the box in one dimension, above it in another
C1_Witness ==
    /\ last.stepped
    /\ \E k \in Dims : Less(last.composed[k], task.low[k])
    /\ \E k \in Dims : Less(task.high[k], last.composed[k])

\* C2 (as claimed): a NaN in position k of the composed action is sent to
\* env.step as exactly 0.0, whatever the action bounds are.
C2_NaNBecomesZero ==
    last.stepped =>
        \A k \in Dims : IsNaN(last.composed[k]) => last.sent[k] = Fin(0)
\* C2 (amended): a NaN in position k of the composed action is replaced by 0.0
\* and then clipped: env.step receives 0.0 when low[k] <= 0 <= high[k], low[k]
\* when low[k] > 0 and high[k] when high[k] < 0, whatever the other positions hold.
C2_NaNBecomesClippedZero ==
    last.stepped =>
        \A k \in Dims :
            IsNaN(last.composed[k]) =>
                last.sent[k] = (IF Less(Fin(0), task.low[k]) THEN task.low[k]
                                ELSE IF Less(task.high[k], Fin(0)) THEN task.high[k]
                                ELSE Fin(0))
\* a NaN beside a non-NaN position, in a dimension whose box contains 0
C2_Witness ==
    /\ last.stepped
    /\ \E k \in Dims :
          /\ IsNaN(last.composed[k])
          /\ LessEq(task.low[k], Fin(0)) /\ LessEq(Fin(0), task.high[k])
          /\ last.sent[k] = Fin(0)
          /\ \E m \in Dims : m # k /\ ~IsNaN(last.composed[m])

C7_SuccessComputation ==
    (Returned /\ result.kind = "evaluate") =>
        LET n == task.n_episodes_test
            passing == {j \in 1..n : RawReturn(j) >= task.success_score}
            info == result.info
        IN  /\ info.success_rate[2] > 0
            /\ info.success_rate[1] * n = Cardinality(passing) * info.success_rate[2]
            /\ info.success <=> (\A j \in 1..n : RawReturn(j) >= task.success_score)
            /\ info.r_avg_test[2] > 0
            /\ info.r_avg_test[1] * n = RawTotalUpTo(n) * info.r_avg_test[2]
\* an evaluation of a reward-scaled task where one episode returns exactly
\* success_score and another falls short
C7_Witness ==
    /\ Returned
    /\ result.kind = "evaluate"
    /\ task.r_min # None
    /\ ~result.info.success
    /\ \E j \in 1..task.n_episodes_test : RawReturn(j) = task.success_score
    /\ \E j \in 1..task.n_episodes_test : RawReturn(j) < task.success_score

Quiet(pr) ==
    /\ task = NoTask
    /\ env = [rng |-> 0, obs |-> 0, t |-> 0, terminates |-> TRUE]
    /\ pc = "probe"
    /\ call = NoCall
    /\ i = 0
    /\ r_episodes = <<>>
    /\ trace = <<>>
    /\ last = NoStep
    /\ result = NoResult
    /\ evalSeen = [p \in Programs |-> {}]
    /\ probe = pr

\* n_episodes_test values tried, around the number of reserved seeds
TestCounts ==
    {1, MaxEpisodes, REWARD_SEED_SHIFT, REWARD_SEED_SHIFT + 1,
     REWARD_SEED_SHIFT + SEED_SHIFT_STRIDE * (MaxShift + 1)}
SeedProbes ==
    {[kind |-> "seed", shift |-> sh, i |-> ti, n_test |-> nt, e |-> te, fix |-> f,
      out |-> FALSE, train_seed |-> 0, eval_seed |-> 0] :
        sh \in 0..MaxShift, ti \in {0, 1, SEED_SHIFT_STRIDE - 1}, nt \in TestCounts,
        te \in {0, REWARD_SEED_SHIFT - 1, REWARD_SEED_SHIFT, REWARD_SEED_SHIFT + 1},
        f \in BOOLEAN}
SeedInit == \E pr \in {q \in SeedProbes : q.e < q.n_test} : Quiet(pr)

\* the seed reward() gives training episode i when seeds are fixed, and the
\* seed evaluate() gives test episode e
SeedProbe ==
    /\ probe.kind = "seed"
    /\ ~probe.out
    /\ probe' = [probe EXCEPT
                    !.train_seed = EpisodeSeed(FALSE, TRUE, probe.i, probe.shift)[1],
                    !.eval_seed = EpisodeSeed(TRUE, probe.fix, probe.e, probe.shift)[1],
                    !.out = TRUE]
    /\ UNCHANGED <<task, env, pc, call, i, r_episodes, trace, last, result, evalSeen>>

SeedNext == SeedProbe
SeedSpec == SeedInit /\ [][SeedNext]_vars

MakeSpecEntries == {SpecNone, SpecAnchor, SpecTokens, SpecTokenList, SpecOther}
MakeScales ==
    {ScaleBool(TRUE), ScaleBool(FALSE), ScaleList(<<>>), ScaleList(<<Rat(0, 1)>>),
     ScaleList(<<Rat(0, 1), Rat(100, 1)>>), ScaleList(<<Rat(0, 1), Rat(1, 1), Rat(2, 1)>>)}
MakeArgs ==
    {[BaseArgs EXCEPT !.env_name = en, !.obs_shape = sh, !.is_box = bx, !.n_actions = na,
                      !.action_spec = sp, !.algorithm = al, !.anchor = an,
                      !.reward_scale = rs] :
        en \in {"Pendulum-v0", "Unlisted-v0"},
        sh \in {<<>>, <<NObs>>, <<NObs, NObs>>},
        bx \in BOOLEAN,
        na \in 1..MaxSpecLen,
        sp \in SeqsUpTo(MakeSpecEntries, MaxSpecLen),
        al \in {None, Some("ppo2")},
        an \in {None, Some("anchor.zip")},
        rs \in MakeScales}
MakeInit ==
    \E a \in MakeArgs :
        Quiet([kind |-> "make", args |-> a, called |-> FALSE, err |-> "", made |-> FALSE])

\* one call of make_control_task
Make ==
    /\ probe.kind = "make"
    /\ ~probe.called
    /\ LET r == make_control_task(probe.args)
       IN  /\ probe' = [probe EXCEPT !.called = TRUE, !.err = r.err, !.made = r.task.made]
           /\ task' = r.task
           /\ pc' = IF r.err = "" THEN "idle" ELSE "raised"
    /\ UNCHANGED <<env, call, i, r_episodes, trace, last, result, evalSeen>>

MakeNext == Make
MakeSpec == MakeInit /\ [][MakeNext]_vars

\* the configurations C9 lists as fatal
ListedFailure(a) ==
    \/ Len(a.action_spec) # a.n_actions
    \/ \E j, k \in 1..Len(a.action_spec) :
          j # k /\ a.action_spec[j].tag = "none" /\ a.action_spec[k].tag = "none"
    \/ Len(a.obs_shape) # 1
    \/ ~a.is_box
    \/ (a.algorithm = None /\ a.anchor # None) \/ (a.algorithm # None /\ a.anchor = None)
    \/ (a.reward_scale = ScaleBool(TRUE)
          /\ a.env_name \notin {"CustomCartPoleContinuous-v0", "MountainCarContinuous-v0",
                "Pendulum-v0", "InvertedDoublePendulumBulletEnv-v0",
                "InvertedPendulumSwingupBulletEnv-v0", "LunarLanderContinuous-v2",
                "HopperBulletEnv-v0", "ReacherBulletEnv-v0", "BipedalWalker-v2"})
    \/ (a.reward_scale.tag = "list" /\ Len(a.reward_scale.items) # 2)
    \/ \E j \in 1..Len(a.action_spec) : a.action_spec[j].tag \notin {"none", "str", "list"}

\* C9: make_control_task raises and builds no task in each listed case, and
\* builds the task in every other configuration (zero or one None entry).
C9_ConstructionValidation ==
    probe.kind = "make" /\ probe.called =>
        /\ ListedFailure(probe.args) => (probe.err # "" /\ ~probe.made /\ task = NoTask)
        /\ ~ListedFailure(probe.args) => (probe.err = "" /\ probe.made /\ task.made)
\* a configuration with exactly one None entry that is built, so that only the
\* count of None entries separates it from a rejected one
C9_Witness ==
    /\ probe.kind = "make"
    /\ probe.called
    /\ probe.made
    /\ NoneCount(probe.args.action_spec) = 1
    /\ Len(probe.args.action_spec) = 2

\* ------------------------------------------- run_episodes, scheduled
\* Python runs a started call to its end without yielding: the steps of
\* run_episodes are taken whenever they are enabled
RunStep == BeginEpisode \/ StepEnv \/ Return
\* seeding on and off, one or several episodes, both kinds of environment
FairArgs ==
    {[BaseArgs EXCEPT !.fix_seeds = f, !.n_episodes_train = nt] :
        f \in BOOLEAN, nt \in {1, MaxEpisodes}}
FairInit == InitWith(FairArgs)
FairSpec == FairInit /\ [][Next]_vars /\ WF_vars(RunStep)

StepCount(j) ==
    Cardinality({k \in 1..Len(trace) : trace[k].op = "step" /\ ResetCount(k) = j})
DoneCount == Cardinality({k \in 1..Len(trace) : trace[k].op = "step" /\ trace[k].done})

C10_Order ==
    LET n == Len(trace)
    IN  \A k \in 1..n :
            LET after_done == k = 1 \/ (trace[k - 1].op = "step" /\ trace[k - 1].done)
            IN  /\ trace[k].op = "seed" =>
                      (after_done /\ k < n /\ trace[k + 1].op = "reset")
                /\ trace[k].op = "reset" =>
                      /\ after_done \/ (trace[k - 1].op = "seed")
                      /\ IF k < n THEN trace[k + 1].op = "step" ELSE pc = "step"
                /\ (trace[k].op = "step" /\ ~trace[k].done) =>
                      IF k < n THEN trace[k + 1].op = "step" ELSE pc = "step"
                /\ (trace[k].op = "step" /\ trace[k].done) =>
                      IF k < n THEN trace[k + 1].op \in {"seed", "reset"} ELSE pc # "step"
C10_Counts ==
    /\ pc = "step" => ResetCount(Len(trace)) = i + 1
    /\ pc = "loop" => ResetCount(Len(trace)) = i
    /\ Returned =>
          /\ ResetCount(Len(trace)) = call.n
          /\ DoneCount = call.n
          /\ env.terminates
    /\ call.kind # "none" =>
          /\ Len(r_episodes) = call.n
          /\ \A j \in 1..call.n : r_episodes[j] = RawReturn(j)
C10_Terminates == (pc \in {"loop", "step"} /\ env.terminates) ~> (pc = "idle")

====
